---- MODULE Spec2Model ----
(***************************************************************************)
(* Model of the wheel-screener service (src/app.py): the HTTP handler      *)
(* wheel_screener, the per-ticker orchestrator get_ticker_data, the quote  *)
(* fetcher get_stock_quote, get_options_expirations and the selector       *)
(* get_near_money_put_iv, against a market-data provider whose responses   *)
(* are chosen nondeterministically.                                        *)
(*                                                                         *)
(* Representation.                                                         *)
(*   - a Python str is a sequence of one-character strings;                *)
(*   - a JSON value of a POST body is [str |-> BOOLEAN, chars |-> ...];     *)
(*   - None / an absent value is the empty sequence <<>>, a present value  *)
(*     v is <<v>>;                                                         *)
(*   - prices and strikes are integers in thousandths of a dollar, share   *)
(*     volumes are integers, implied volatilities are integers in units    *)
(*     of 1e-5, so that every round(.., 2) of the code is a real rounding; *)
(*   - calendar dates are day offsets from today, and the time of day of   *)
(*     datetime.now() is 0 (exactly midnight) or 1 (any later instant).    *)
(***************************************************************************)
EXTENDS Integers, Sequences, FiniteSets, TLC

VARIABLES
  pc,                 \* position of the request: idle, loop, expirations, chain, done
  req,                \* the HTTP request being served
  mode,               \* wheel_screener's local `mode`
  tickers,            \* wheel_screener's local `tickers`
  idx,                \* 1-based position of the batch loop in `tickers`
  results,            \* wheel_screener's local `results`
  response,           \* the HTTP response, <<>> until the handler returns
  calls,              \* log of the provider calls made, in order
  quote_data,         \* the provider's answer to get_stock_quote's request
  quote,              \* get_ticker_data's local `quote` (<<>> is None)
  now_tod,            \* time of day read by datetime.now() in the selector
  expirations,        \* the selector's local `expirations`
  chain_expiration,   \* the selector's local `target_expiration` (0: none chosen)
  puts,               \* the selector's local `puts`
  nearest_puts,       \* the selector's local `nearest_puts`
  iv                  \* the selector's return value (<<>> is None)

vars == <<pc, req, mode, tickers, idx, results, response, calls, quote_data, quote,
          now_tod, expirations, chain_expiration, puts, nearest_puts, iv>>

locals == <<quote_data, quote, now_tod, expirations, chain_expiration, puts, nearest_puts, iv>>

None == <<>>

(***************************************************************************)
(* Bounds of the model.                                                    *)
(***************************************************************************)
MaxTickers == 2       \* longest POST "tickers" list
MaxExps == 2          \* longest expiration list the provider returns
MaxOpts == 3          \* longest option chain the provider returns

(***************************************************************************)
(* Strings.                                                                *)
(***************************************************************************)
WEEKLY == <<"w", "e", "e", "k", "l", "y">>
MONTHLY == <<"m", "o", "n", "t", "h", "l", "y">>

\* str.lower(), on the characters the model uses
LowerChar(c) ==
  CASE c = "W" -> "w" [] c = "E" -> "e" [] c = "K" -> "k" [] c = "L" -> "l"
    [] c = "Y" -> "y" [] c = "M" -> "m" [] c = "O" -> "o" [] c = "N" -> "n"
    [] c = "T" -> "t" [] c = "H" -> "h" [] c = "D" -> "d" [] c = "A" -> "a"
    [] c = "F" -> "f" [] c = "S" -> "s" [] c = "I" -> "i" [] c = "B" -> "b"
    [] c = "C" -> "c" [] c = "P" -> "p"
    [] OTHER -> c

Lower(s) == [i \in 1..Len(s) |-> LowerChar(s[i])]

\* str.upper(), on the characters the model uses
UpperChar(c) ==
  CASE c = "w" -> "W" [] c = "e" -> "E" [] c = "k" -> "K" [] c = "l" -> "L"
    [] c = "y" -> "Y" [] c = "m" -> "M" [] c = "o" -> "O" [] c = "n" -> "N"
    [] c = "t" -> "T" [] c = "h" -> "H" [] c = "d" -> "D" [] c = "a" -> "A"
    [] c = "f" -> "F" [] c = "s" -> "S" [] c = "i" -> "I" [] c = "b" -> "B"
    [] c = "c" -> "C" [] c = "p" -> "P"
    [] OTHER -> c

Upper(s) == [i \in 1..Len(s) |-> UpperChar(s[i])]

\* str.strip(): leading and trailing blanks removed
RECURSIVE LStrip(_)
LStrip(s) == IF s # <<>> /\ Head(s) = " " THEN LStrip(Tail(s)) ELSE s

RECURSIVE RStrip(_)
RStrip(s) ==
  IF s # <<>> /\ s[Len(s)] = " " THEN RStrip(SubSeq(s, 1, Len(s) - 1)) ELSE s

Strip(s) == RStrip(LStrip(s))

\* str.split(","): the pieces between commas, empty pieces kept
RECURSIVE SplitComma(_, _)
SplitComma(s, cur) ==
  IF s = <<>> THEN <<cur>>
  ELSE IF Head(s) = "," THEN <<cur>> \o SplitComma(Tail(s), <<>>)
  ELSE SplitComma(Tail(s), Append(cur, Head(s)))

Split(s) == SplitComma(s, <<>>)

(***************************************************************************)
(* JSON values of a request body.                                          *)
(***************************************************************************)
JStr(s) == [str |-> TRUE, chars |-> s]
JNum == [str |-> FALSE, chars |-> <<>>]

\* isinstance(ticker, str)
IsString(v) == v.str

(***************************************************************************)
(* Numbers: round(x, 2) of a quotient of integers.  The quotient n/d is    *)
(* rounded to the nearest integer; the provider values of the model never  *)
(* fall exactly half way, where Python rounds the binary float.            *)
(***************************************************************************)
RoundDiv(n, d) == (2 * n + d) \div (2 * d)

Abs(x) == IF x < 0 THEN -x ELSE x

(***************************************************************************)
(* The HTTP request and wheel_screener's validation (lines 269-315).       *)
(***************************************************************************)
ValidModes == {WEEKLY, MONTHLY}

\* the default tickers of a GET request without a tickers parameter
DefaultTickers ==
  << <<"S", "O", "F", "I">>, <<"F">>, <<"B", "A", "C">>, <<"P", "F", "E">>,
     <<"K", "O">> >>

MsgInvalidMode == "Invalid mode. Must be \"weekly\" or \"monthly\""
MsgNoTickers == "Request must include \"tickers\" list in JSON body"
MsgNotList == "\"tickers\" must be a list"
MsgEmpty == "Tickers list cannot be empty"
MsgInternal == "Internal server error: 'int' object has no attribute 'lower'"
MsgNoQuote == "Unable to fetch quote data"

\* the ?mode= values tried: absent, upper-case weekly, an unknown word
QueryModes == {None, <<Upper(WEEKLY)>>, <<<<"d", "a", "y">>>>}

\* the ?tickers= values tried: absent or empty, one symbol, two symbols with a
\* blank after the comma, a lone comma
TickerParams ==
  {<<>>, <<"f">>, <<"f", ",", " ", "K">>, <<",">>}

\* the "mode" values of a POST body: absent, a string, a number
BodyModes ==
  {None, <<JStr(<<"M", "o", "n", "t", "h", "l", "y">>)>>,
   <<JStr(<<"d", "a", "y">>)>>, <<JNum>>}

\* the entries a POST "tickers" list is made of
TickerEntries == {JStr(<<" ", "f">>), JStr(<<"K">>), JNum}

RECURSIVE SeqsUpTo(_, _)
SeqsUpTo(S, n) ==
  IF n = 0 THEN {<<>>}
  ELSE LET shorter == SeqsUpTo(S, n - 1)
       IN shorter \cup {Append(q, x) : q \in shorter, x \in S}

GetRequests ==
  {[method |-> "GET", qmode |-> qm, tickers_param |-> tp,
    has_tickers |-> FALSE, is_list |-> FALSE, body_tickers |-> <<>>,
    bmode |-> None] : qm \in QueryModes, tp \in TickerParams}

\* has_tickers: the body is a non-empty object with a "tickers" key;
\* is_list: that value is a list (body_tickers), otherwise a scalar
PostRequests ==
  {[method |-> "POST", qmode |-> qm, tickers_param |-> <<>>,
    has_tickers |-> b[1], is_list |-> b[2], body_tickers |-> b[3],
    bmode |-> bm] :
     qm \in QueryModes, bm \in BodyModes,
     b \in {<<FALSE, FALSE, <<>>>>, <<TRUE, FALSE, <<>>>>}
           \cup {<<TRUE, TRUE, l>> : l \in SeqsUpTo(TickerEntries, MaxTickers)}}

Requests == GetRequests \cup PostRequests

Reject(code, msg) ==
  [ok |-> FALSE, status |-> code, error |-> msg, mode |-> <<>>, tickers |-> <<>>]

Accept(m, tk) ==
  [ok |-> TRUE, status |-> 0, error |-> "", mode |-> m, tickers |-> tk]

\* mutant: no default list
GetTickersNoDefault(param) ==
  IF param # <<>>
  THEN LET parts == Split(param)
       IN [i \in 1..Len(parts) |-> JStr(Strip(parts[i]))]
  ELSE <<>>

\* lines 280-287: the tickers of a GET request
GetTickers(param) ==
  IF param # <<>>
  THEN LET parts == Split(param)
       IN [i \in 1..Len(parts) |-> JStr(Strip(parts[i]))]
  ELSE [i \in 1..Len(DefaultTickers) |-> JStr(DefaultTickers[i])]

\* lines 314-315: the emptiness check shared by GET and POST
CheckEmpty(m, tk) ==
  IF Len(tk) = 0 THEN Reject(400, MsgEmpty) ELSE Accept(m, tk)

\* lines 272-315: everything wheel_screener does before the batch loop
Validate(r) ==
  LET qm == Lower(IF r.qmode = None THEN MONTHLY ELSE r.qmode[1])
  IN IF qm \notin ValidModes THEN Reject(400, MsgInvalidMode)
     ELSE IF r.method = "GET" THEN CheckEmpty(qm, GetTickers(r.tickers_param))
     ELSE IF ~r.has_tickers THEN Reject(400, MsgNoTickers)
     ELSE IF r.bmode # None /\ ~IsString(r.bmode[1])
          THEN Reject(500, MsgInternal)      \* data["mode"].lower() raises
     ELSE LET m == IF r.bmode = None THEN qm ELSE Lower(r.bmode[1].chars)
          IN IF m \notin ValidModes THEN Reject(400, MsgInvalidMode)
             ELSE IF ~r.is_list THEN Reject(400, MsgNotList)
             ELSE CheckEmpty(m, r.body_tickers)

ErrorResponse(code, msg) == [status |-> code, error |-> msg]

\* mutant: count is the length of the input list
SuccessResponseCountsInput(m, res) ==
  [status |-> 200, success |-> TRUE, mode |-> m, count |-> Len(tickers), data |-> res]

\* lines 327-338 (the timestamp is left out)
SuccessResponse(m, res) ==
  [status |-> 200, success |-> TRUE, mode |-> m, count |-> Len(res), data |-> res]

(***************************************************************************)
(* The quote fetcher (lines 31-59).  A provider response is a transport    *)
(* error or non-2xx status ("error"), a body without quotes.quote          *)
(* ("nostruct"), a quote whose last is null or no number, on which float() *)
(* raises ("malformed"), or a quote whose last and volume may be absent.   *)
(***************************************************************************)
QuoteError == [kind |-> "error", has_last |-> FALSE, last |-> 0,
               has_volume |-> FALSE, volume |-> 0]
QuoteNoStruct == [kind |-> "nostruct", has_last |-> FALSE, last |-> 0,
                  has_volume |-> FALSE, volume |-> 0]
QuoteMalformed == [kind |-> "malformed", has_last |-> TRUE, last |-> 0,
                   has_volume |-> FALSE, volume |-> 0]
QuoteOk(hl, l, hv, v) == [kind |-> "ok", has_last |-> hl, last |-> l,
                          has_volume |-> hv, volume |-> v]

Description == "desc"

\* mutant: a quote whose price is 0 counts as no data
get_stock_quote_zero_is_none(symbol, resp) ==
  IF resp.kind = "ok" /\ resp.has_last /\ resp.last # 0
  THEN <<[price |-> resp.last,
          volume |-> IF resp.has_volume THEN resp.volume ELSE 0,
          description |-> Description,
          symbol |-> symbol]>>
  ELSE None

\* get_stock_quote: None, or the quote with absent numbers defaulted to 0
get_stock_quote(symbol, resp) ==
  IF resp.kind = "ok"
  THEN <<[price |-> IF resp.has_last THEN resp.last ELSE 0,
          volume |-> IF resp.has_volume THEN resp.volume ELSE 0,
          description |-> Description,
          symbol |-> symbol]>>
  ELSE None

\* the quote responses tried: the three failures, a quote without numbers, a
\* quote whose numbers are 0, and $10.004 with 5,004,000 shares
QuoteResponses ==
  {QuoteError, QuoteNoStruct, QuoteMalformed, QuoteOk(FALSE, 0, FALSE, 0),
   QuoteOk(TRUE, 0, TRUE, 0), QuoteOk(TRUE, 10004, TRUE, 5004000)}

(***************************************************************************)
(* get_options_expirations (lines 62-86).  A response is a transport error *)
(* ("error"), a body without expirations.date ("nostruct"), one date given *)
(* as a scalar ("scalar") or a list of dates ("list").                     *)
(***************************************************************************)
ExpResp(k, ds) == [kind |-> k, dates |-> ds]

get_options_expirations(resp) ==
  IF resp.kind \in {"scalar", "list"} THEN resp.dates ELSE <<>>

\* the expiration days tried, as offsets from today
Days == {3, 7, 14, 15, 30, 45, 46}

AllExpResponses ==
  {ExpResp("error", <<>>), ExpResp("nostruct", <<>>)}
    \cup {ExpResp("scalar", <<d>>) : d \in Days}
    \cup {ExpResp("list", l) : l \in SeqsUpTo(Days, MaxExps)}

SomeExpResponses ==
  {ExpResp("error", <<>>), ExpResp("nostruct", <<>>), ExpResp("scalar", <<7>>),
   ExpResp("list", <<3, 45>>)}

(***************************************************************************)
(* Expiration selection (lines 108-127).  A datetime is a day offset and a *)
(* time of day; strptime yields midnight of the day.                       *)
(***************************************************************************)
WeeklyStart == 7
WeeklyEnd == 14
MonthlyStart == 30
MonthlyEnd == 45

DateTime(d, t) == [day |-> d, tod |-> t]

\* a <= b on datetimes
DateTimeLE(a, b) == a.day < b.day \/ (a.day = b.day /\ a.tod <= b.tod)

\* datetime.now() + timedelta(days=n)
target_date(m, tod) ==
  DateTime(IF m = WEEKLY THEN WeeklyStart ELSE MonthlyStart, tod)

end_date(m, tod) ==
  DateTime(IF m = WEEKLY THEN WeeklyEnd ELSE MonthlyEnd, tod)

\* line 119: target_date <= exp_date <= end_date
Suitable(d, m, tod) ==
  /\ DateTimeLE(target_date(m, tod), DateTime(d, 0))
  /\ DateTimeLE(DateTime(d, 0), end_date(m, tod))

suitable_expirations(exps, m, tod) == SelectSeq(exps, LAMBDA d : Suitable(d, m, tod))

\* lines 123-127
target_expiration(exps, m, tod) ==
  LET s == suitable_expirations(exps, m, tod)
  IN IF s = <<>> THEN exps[1] ELSE s[1]

(***************************************************************************)
(* The option chain (lines 136-155).  A response is a transport error      *)
(* ("error"), a body without "options" ("nokey"), "options": null          *)
(* ("null"), an "options" object without "option" ("noopt"), one contract  *)
(* given as a scalar ("scalar") or a list of contracts ("list").           *)
(***************************************************************************)
Option(ty, k, hi, v) == [option_type |-> ty, strike |-> k, has_iv |-> hi, mid_iv |-> v]

ChainResp(k, os) == [kind |-> k, options |-> os]

\* the contracts tried, for a price of $10 (band $6..$8, midpoint $7)
OptA == Option("put", 7000, TRUE, 45000)      \* at the midpoint, IV 0.45
OptB == Option("put", 6500, TRUE, 4000)       \* in band, IV 0.04 (too low)
OptC == Option("put", 9000, TRUE, 50123)      \* out of band, IV 0.50123
OptD == Option("put", 8000, FALSE, 0)         \* on the band's edge, no IV
OptE == Option("call", 7000, TRUE, 30000)     \* not a put

Options == {OptA, OptB, OptC, OptD, OptE}

AllChainResponses ==
  {ChainResp("error", <<>>), ChainResp("nokey", <<>>), ChainResp("null", <<>>),
   ChainResp("noopt", <<>>)}
    \cup {ChainResp("scalar", <<o>>) : o \in Options}
    \cup {ChainResp("list", l) : l \in SeqsUpTo(Options, MaxOpts)}

SomeChainResponses ==
  {ChainResp("error", <<>>), ChainResp("nokey", <<>>), ChainResp("list", <<OptE>>),
   ChainResp("list", <<OptA>>), ChainResp("scalar", <<OptB>>)}

\* lines 136-152: the contract list, or None where the code returns None or
\* raises (raise_for_status, KeyError on data["options"], TypeError on null)
ChainOptions(resp) ==
  IF resp.kind \in {"scalar", "list"} THEN <<resp.options>> ELSE None

\* line 155
PutsOf(options) == SelectSeq(options, LAMBDA o : o.option_type = "put")

(***************************************************************************)
(* Strike selection (lines 165-183).  Distances are in units of 1e-4       *)
(* dollar, ten times the price unit, so that 0.60, 0.70 and 0.80 of the    *)
(* price are integers.                                                     *)
(***************************************************************************)
Penalty == 1000

InBand(strike, price) == 6 * price <= 10 * strike /\ 10 * strike <= 8 * price

distance(strike, price) ==
  IF InBand(strike, price)
  THEN Abs(10 * strike - 7 * price)
  ELSE Abs(10 * strike - 7 * price) + Penalty * 10000

\* sorted(puts, key=distance): a stable sort, by insertion of each put in
\* front of the puts after it that are not nearer
RECURSIVE InsertByDistance(_, _, _)
InsertByDistance(p, sorted, price) ==
  IF sorted = <<>> THEN <<p>>
  ELSE IF distance(p.strike, price) <= distance(Head(sorted).strike, price)
       THEN <<p>> \o sorted
       ELSE <<Head(sorted)>> \o InsertByDistance(p, Tail(sorted), price)

RECURSIVE puts_sorted(_, _)
puts_sorted(ps, price) ==
  IF ps = <<>> THEN <<>>
  ELSE InsertByDistance(Head(ps), puts_sorted(Tail(ps), price), price)

Take == 3

\* line 183: puts_sorted[:3]
nearest(ps, price) ==
  LET s == puts_sorted(ps, price)
  IN SubSeq(s, 1, IF Len(s) < Take THEN Len(s) ELSE Take)

(***************************************************************************)
(* IV aggregation (lines 189-206), as the code is indented: the return of  *)
(* line 204 is inside the for loop, so the loop ends in its first          *)
(* iteration, and avg_iv is assigned only in the else branch of the band   *)
(* test.  Reading an unassigned avg_iv raises, and line 207 catches it.    *)
(***************************************************************************)
IvLow == 5000
IvHigh == 200000

IvInBand(v) == IvLow <= v /\ v <= IvHigh

RECURSIVE SumSeq(_)
SumSeq(q) == IF q = <<>> THEN 0 ELSE Head(q) + SumSeq(Tail(q))

\* round(sum/len * 100, 2), in units of 0.01 percent
AvgPercent(iv_values) == RoundDiv(SumSeq(iv_values), 10 * Len(iv_values))

IvLoop(nearest_) ==
  IF nearest_ = <<>> THEN None                       \* lines 205-206
  ELSE LET put == nearest_[1]
           in_band == put.has_iv /\ IvInBand(put.mid_iv)
           iv_values == IF in_band THEN <<put.mid_iv>> ELSE <<>>
           avg_assigned == put.has_iv /\ ~in_band /\ iv_values # <<>>
       IN IF avg_assigned THEN <<AvgPercent(iv_values)>> ELSE None

\* line 157: the test on the number of puts that guards the return of line 161
ReturnsBeforeSelection(ps) == Len(ps) > 0

\* lines 136-209: the selector from the chain response on
SelectFromChain(resp, price) ==
  LET opts == ChainOptions(resp)
  IN IF opts = None
     THEN [puts |-> <<>>, nearest_puts |-> <<>>, iv |-> None]
     ELSE LET ps == PutsOf(opts[1])
          IN IF ReturnsBeforeSelection(ps)
             THEN [puts |-> ps, nearest_puts |-> <<>>, iv |-> None]
             ELSE LET n == nearest(ps, price)
                  IN [puts |-> ps, nearest_puts |-> n, iv |-> IvLoop(n)]

(***************************************************************************)
(* get_ticker_data's records (lines 227-257).  price is in cents, volume   *)
(* in hundredths of a million shares.                                      *)
(***************************************************************************)
NA == [text |-> "N/A"]
Number(n) == [number |-> n]

\* mutant: the symbol is returned as given
QuoteErrorRecordAsGiven(ticker_symbol) ==
  [ticker |-> ticker_symbol, error |-> MsgNoQuote]

\* lines 228-231
QuoteErrorRecord(ticker_symbol) ==
  [ticker |-> Upper(ticker_symbol), error |-> MsgNoQuote]

\* mutant: None is passed on unconverted
IvFieldUnconverted(v) == IF v # None THEN Number(v[1]) ELSE [text |-> "None"]

\* line 251
IvField(v) == IF v # None THEN Number(v[1]) ELSE NA

\* mutant: the data record also carries an (empty) error field
DataRecordWithError(ticker_symbol, q, v) ==
  [ticker |-> Upper(ticker_symbol),
   price |-> RoundDiv(q.price, 10),
   implied_volatility |-> IvField(v),
   description |-> q.description,
   volume |-> RoundDiv(q.volume, 10000),
   error |-> ""]

\* lines 242-254
DataRecord(ticker_symbol, q, v) ==
  [ticker |-> Upper(ticker_symbol),
   price |-> RoundDiv(q.price, 10),
   implied_volatility |-> IvField(v),
   description |-> q.description,
   volume |-> RoundDiv(q.volume, 10000)]

(***************************************************************************)
(* The state machine.  One request is served; the handler's code is cut at *)
(* its blocking provider calls, and each action runs the code from one     *)
(* call's response to the next call.                                       *)
(***************************************************************************)
Call(api, pos, ok) == [api |-> api, pos |-> pos, ok |-> ok]

NoLocals ==
  /\ quote_data = None
  /\ quote = None /\ now_tod = 0 /\ expirations = <<>> /\ chain_expiration = 0
  /\ puts = <<>> /\ nearest_puts = <<>> /\ iv = None

Init ==
  /\ pc = "idle"
  /\ req = None
  /\ mode = <<>>
  /\ tickers = <<>>
  /\ idx = 0
  /\ results = <<>>
  /\ response = None
  /\ calls = <<>>
  /\ NoLocals

\* the symbol get_ticker_data is called with (line 323)
CurrentSymbol == Strip(tickers[idx].chars)

\* lines 269-320: the request is read and validated
HandleRequest ==
  /\ pc = "idle"
  /\ \E r \in Requests :
       LET v == Validate(r)
       IN /\ req' = <<r>>
          /\ IF v.ok
             THEN /\ pc' = "loop"
                  /\ mode' = v.mode
                  /\ tickers' = v.tickers
                  /\ idx' = 1
                  /\ response' = None
             ELSE /\ pc' = "done"
                  /\ response' = <<ErrorResponse(v.status, v.error)>>
                  /\ UNCHANGED <<mode, tickers, idx>>
  /\ UNCHANGED <<results, calls, locals>>

\* lines 321-322: an entry that is not a string is passed over
SkipNonString ==
  /\ pc = "loop"
  /\ idx <= Len(tickers)
  /\ ~IsString(tickers[idx])
  /\ idx' = idx + 1
  /\ UNCHANGED <<pc, req, mode, tickers, results, response, calls, locals>>

\* mutant: an error record ends the loop
ReturnRecordAbort(record) ==
  /\ results' = Append(results, record)
  /\ idx' = IF "error" \in DOMAIN record THEN Len(tickers) + 1 ELSE idx + 1
  /\ pc' = "loop"

\* mutant: a ticker that gave an error record is tried again
ReturnRecordRetry(record) ==
  /\ results' = Append(results, record)
  /\ idx' = IF "error" \in DOMAIN record THEN idx ELSE idx + 1
  /\ pc' = "loop"

\* get_ticker_data returns `record`: line 324 and the loop's next iteration
ReturnRecord(record) ==
  /\ results' = Append(results, record)
  /\ idx' = idx + 1
  /\ pc' = "loop"

\* lines 323, 225-233: get_ticker_data starts and the quote call is answered
QuoteCall ==
  /\ pc = "loop"
  /\ idx <= Len(tickers)
  /\ IsString(tickers[idx])
  /\ \E resp \in QuoteResponses :
       LET q == get_stock_quote(CurrentSymbol, resp)
       IN /\ calls' = Append(calls, Call("quote", idx, q # None))
          /\ quote_data' = <<resp>>
          /\ quote' = q
          /\ IF q = None
             THEN ReturnRecord(QuoteErrorRecord(CurrentSymbol))
             ELSE pc' = "expirations" /\ UNCHANGED <<results, idx>>
  /\ now_tod' = 0 /\ expirations' = <<>> /\ chain_expiration' = 0
  /\ puts' = <<>> /\ nearest_puts' = <<>> /\ iv' = None
  /\ UNCHANGED <<req, mode, tickers, response>>

\* lines 238, 103-134: the selector starts, the expirations call is answered
\* and the chain request is built
ExpirationsCallFrom(Responses) ==
  /\ pc = "expirations"
  /\ \E resp \in Responses, tod \in {0, 1} :
       LET exps == get_options_expirations(resp)
       IN /\ calls' = Append(calls, Call("expirations", idx, exps # <<>>))
          /\ expirations' = exps
          /\ IF exps = <<>>
             THEN /\ ReturnRecord(DataRecord(CurrentSymbol, quote[1], None))
                  /\ now_tod' = 0
                  /\ chain_expiration' = 0
             ELSE /\ pc' = "chain"
                  /\ now_tod' = tod
                  /\ chain_expiration' = target_expiration(exps, mode, tod)
                  /\ UNCHANGED <<results, idx>>
  /\ UNCHANGED <<req, mode, tickers, response, quote_data, quote, puts, nearest_puts, iv>>

\* lines 136-209, 242-254: the chain call is answered, the selector and
\* get_ticker_data return.  The expiration locals are not read again.
ChainCallFrom(Responses) ==
  /\ pc = "chain"
  /\ \E resp \in Responses :
       LET sel == SelectFromChain(resp, quote[1].price)
       IN /\ calls' = Append(calls, Call("chain", idx, resp.kind # "error"))
          /\ puts' = sel.puts
          /\ nearest_puts' = sel.nearest_puts
          /\ iv' = sel.iv
          /\ ReturnRecord(DataRecord(CurrentSymbol, quote[1], sel.iv))
  /\ expirations' = <<>> /\ now_tod' = 0 /\ chain_expiration' = 0
  /\ UNCHANGED <<req, mode, tickers, response, quote_data, quote>>

\* lines 325-338: the loop is over
Respond ==
  /\ pc = "loop"
  /\ idx > Len(tickers)
  /\ response' = <<SuccessResponse(mode, results)>>
  /\ pc' = "done"
  /\ UNCHANGED <<req, mode, tickers, idx, results, calls, locals>>

ExpirationsCall == ExpirationsCallFrom(SomeExpResponses)
ChainCall == ChainCallFrom(SomeChainResponses)

Next ==
  \/ HandleRequest
  \/ SkipNonString
  \/ QuoteCall
  \/ ExpirationsCall
  \/ ChainCall
  \/ Respond

Spec == Init /\ [][Next]_vars

(***************************************************************************)
(* The selector on its own: the request is a GET for the one symbol "f",   *)
(* its quote has been fetched, and get_near_money_put_iv is about to run   *)
(* against every provider response up to MaxExps dates and MaxOpts         *)
(* contracts.                                                              *)
(***************************************************************************)
SelRequests == {r \in GetRequests : r.tickers_param = <<"f">> /\ Validate(r).ok}

SelQuoteResponses == {QuoteOk(FALSE, 0, TRUE, 5004000), QuoteOk(TRUE, 10000, TRUE, 5004000)}

InitSel ==
  \E r \in SelRequests, resp \in SelQuoteResponses :
    /\ pc = "expirations"
    /\ req = <<r>>
    /\ mode = Validate(r).mode
    /\ tickers = Validate(r).tickers
    /\ idx = 1
    /\ results = <<>>
    /\ response = None
    /\ calls = <<Call("quote", 1, TRUE)>>
    /\ quote_data = <<resp>>
    /\ quote = get_stock_quote(<<"f">>, resp)
    /\ now_tod = 0 /\ expirations = <<>> /\ chain_expiration = 0
    /\ puts = <<>> /\ nearest_puts = <<>> /\ iv = None

SelExpirationsCall == ExpirationsCallFrom(AllExpResponses)
SelChainCall == ChainCallFrom(AllChainResponses)

NextSel ==
  \/ SelExpirationsCall
  \/ SelChainCall
  \/ Respond

SpecSel == InitSel /\ [][NextSel]_vars

(***************************************************************************)
(* Vocabulary of the properties.                                           *)
(***************************************************************************)
\* the string entries of the ticker list, in order
StringEntries == SelectSeq(tickers, IsString)

\* the index in `results` of the record of the ticker at position i
RecordIndex(i) == Cardinality({j \in 1..i : IsString(tickers[j])})

\* the symbol wheel_screener passes for position i
SymbolAt(i) == Strip(tickers[i].chars)

LowerCaseLetters == {"f", "k", "s", "o", "i", "b", "a", "c", "p", "e"}

\* t is s in upper case, said without the model's Upper
IsUpperOf(t, s) ==
  /\ Len(t) = Len(s)
  /\ \A n \in 1..Len(t) : t[n] \notin LowerCaseLetters /\ LowerChar(t[n]) = LowerChar(s[n])

LastCall == calls[Len(calls)]

\* get_ticker_data has just returned from a run that reached the selector
SelectorReturned ==
  /\ pc \in {"loop", "done"}
  /\ calls # <<>>
  /\ LastCall.api \in {"expirations", "chain"}

\* C1: a ticker whose quote fetch yields no data gets exactly the record
\* {ticker: upper-cased symbol, error: "Unable to fetch quote data"}, and no
\* expirations call and no chain call is made for it.
C1_QuoteFailureRecord ==
  \A k \in 1..Len(calls) :
    (calls[k].api = "quote" /\ ~calls[k].ok) =>
      LET i == calls[k].pos
          r == results[RecordIndex(i)]
      IN /\ DOMAIN r = {"ticker", "error"}
         /\ IsUpperOf(r.ticker, SymbolAt(i))
         /\ r.error = "Unable to fetch quote data"
         /\ \A j \in 1..Len(calls) :
              calls[j].pos = i => calls[j].api = "quote"

\* a lower-case symbol's quote failed and the request was answered
C1_Witness ==
  /\ pc = "done"
  /\ \E k \in 1..Len(calls) :
       /\ calls[k].api = "quote" /\ ~calls[k].ok
       /\ SymbolAt(calls[k].pos) = <<"f">>

(***************************************************************************)
(* What the selector is claimed to compute, stated from the claims.        *)
(***************************************************************************)
\* the in-band IV values of a list of puts, in order
RECURSIVE SurvivingIvs(_)
SurvivingIvs(ps) ==
  IF ps = <<>> THEN <<>>
  ELSE (IF Head(ps).has_iv /\ 5000 <= Head(ps).mid_iv /\ Head(ps).mid_iv <= 200000
        THEN <<Head(ps).mid_iv>> ELSE <<>>) \o SurvivingIvs(Tail(ps))

\* n is round(mean(vs) * 100, 2) in units of 0.01 percent: the nearest
\* integer to sum(vs) / (10 * len(vs))
IsRoundedMean(n, vs) == 2 * Abs(10 * Len(vs) * n - SumSeq(vs)) <= 10 * Len(vs)

\* the distance of C5, in units of 1e-4 dollar
ClaimedDistance(strike, price) ==
  IF 6 * price <= 10 * strike /\ 10 * strike <= 8 * price
  THEN Abs(10 * strike - 7 * price)
  ELSE Abs(10 * strike - 7 * price) + 10000000

Min(a, b) == IF a < b THEN a ELSE b

Occurrences(q, x) == Cardinality({n \in 1..Len(q) : q[n] = x})

\* sel holds the puts of ps at the positions I, in some order
HoldsExactly(sel, ps, I) ==
  /\ Len(sel) = Cardinality(I)
  /\ \A x \in {ps[n] : n \in 1..Len(ps)} :
       Occurrences(sel, x) = Cardinality({n \in I : ps[n] = x})

\* sel is a choice of the min(3, n) puts of ps of smallest distance
IsNearestChoice(sel, ps, price) ==
  \E I \in SUBSET (1..Len(ps)) :
    /\ Cardinality(I) = Min(3, Len(ps))
    /\ HoldsExactly(sel, ps, I)
    /\ \A a \in I, b \in (1..Len(ps)) \ I :
         ClaimedDistance(ps[a].strike, price) <= ClaimedDistance(ps[b].strike, price)

\* the chain call has just been answered with a chain that holds puts
ChainWithPuts == SelectorReturned /\ LastCall.api = "chain" /\ puts # <<>>

\* C2: when one of the min(3, n) nearest puts has a mid IV inside
\* [0.05, 2.00], the selector returns round(mean * 100, 2) of exactly the
\* in-band IV values of those puts.
C2_MeanOfSurvivingIvs ==
  ChainWithPuts =>
    LET vs == SurvivingIvs(nearest(puts, quote[1].price))
    IN vs # <<>> => (iv # None /\ IsRoundedMean(iv[1], vs))

\* C5: for a non-empty set of puts, the puts used for IV averaging are the
\* min(3, n) puts of smallest distance, the distance being |strike - 0.70P|
\* inside [0.60P, 0.80P] and |strike - 0.70P| + 1000 outside.
C5_NearestPutsSelected ==
  ChainWithPuts => IsNearestChoice(nearest_puts, puts, quote[1].price)

\* an expiration dated on either end day of the window is inside
ClaimedInWindow(d, m) ==
  IF m = WEEKLY THEN 7 <= d /\ d <= 14 ELSE 30 <= d /\ d <= 45

ClaimedExpiration(exps, m) ==
  LET inside == SelectSeq(exps, LAMBDA d : ClaimedInWindow(d, m))
  IN IF inside = <<>> THEN exps[1] ELSE inside[1]

\* C4: the chain is requested for the first expiration inside the window
\* [now+7d, now+14d] (weekly) or [now+30d, now+45d] (monthly), both end days
\* inside, and for the first expiration of the list when none is inside.
C4_ExpirationSelected ==
  pc = "chain" => chain_expiration = ClaimedExpiration(expirations, mode)

(***************************************************************************)
(* The orchestrator and the batch.                                         *)
(***************************************************************************)
\* v is x rounded to `unit`: no multiple of unit is nearer to x
IsRoundedTo(v, x, unit) == 2 * Abs(unit * v - x) <= unit

\* C3: when the quote was fetched and the selector returns without a value
\* (at whatever stage it gave up), get_ticker_data returns the full record:
\* price, description and volume from the quote, implied_volatility "N/A",
\* no error field.
C3_SelectorFailureRecord ==
  (SelectorReturned /\ iv = None) =>
    LET r == results[RecordIndex(LastCall.pos)]
    IN /\ DOMAIN r = {"ticker", "price", "implied_volatility", "description", "volume"}
       /\ r.implied_volatility = [text |-> "N/A"]
       /\ IsRoundedTo(r.price, quote[1].price, 10)
       /\ IsRoundedTo(r.volume, quote[1].volume, 10000)
       /\ r.description = quote[1].description

\* the chain call failed in transport for a quote of $10.004 and 5,004,000
\* shares: the record says $10.00 and 5.00 million
C3_Witness ==
  /\ SelectorReturned /\ iv = None
  /\ LastCall.api = "chain" /\ ~LastCall.ok
  /\ results[RecordIndex(LastCall.pos)].price = 1000
  /\ results[RecordIndex(LastCall.pos)].volume = 500

\* C6: every record has exactly the fields {ticker, price,
\* implied_volatility, description, volume} or exactly {ticker, error}, and
\* its ticker is the upper-cased symbol.
C6_RecordShape ==
  /\ Len(results) <= Len(StringEntries)
  /\ \A n \in 1..Len(results) :
       /\ DOMAIN results[n] \in
            {{"ticker", "price", "implied_volatility", "description", "volume"},
             {"ticker", "error"}}
       /\ IsUpperOf(results[n].ticker, Strip(StringEntries[n].chars))

\* an error record and a data record in one answer, the first for " f"
C6_Witness ==
  /\ pc = "done"
  /\ Len(results) = 2
  /\ tickers[1] = JStr(<<" ", "f">>)
  /\ "error" \in DOMAIN results[1]
  /\ "price" \in DOMAIN results[2]

\* C7: data holds one record per string entry of the list, in the list's
\* order, duplicates included; other entries give no record; count is the
\* number of records.
C7_OneRecordPerString ==
  (pc = "done" /\ response[1].status = 200) =>
    LET data == response[1].data
    IN /\ Len(data) = Len(StringEntries)
       /\ \A n \in 1..Len(data) :
            IsUpperOf(data[n].ticker, Strip(StringEntries[n].chars))
       /\ response[1].count = Len(data)

\* a list with a non-string entry in front of a string one
C7_Witness ==
  /\ pc = "done" /\ response[1].status = 200
  /\ Len(tickers) = 2 /\ ~IsString(tickers[1]) /\ IsString(tickers[2])
  /\ response[1].count = 1

\* the request passed validation
Accepted == req # None /\ Validate(req[1]).ok

\* C8: a failure on one ticker never aborts the batch: an accepted request
\* is never answered before every string ticker has had its quote call and
\* its record, and it is answered with HTTP 200.
C8_BatchNeverAborts ==
  (pc = "done" /\ Accepted) =>
    /\ response[1].status = 200
    /\ \A i \in 1..Len(tickers) :
         IsString(tickers[i]) =>
           /\ \E k \in 1..Len(calls) : calls[k].api = "quote" /\ calls[k].pos = i
           /\ RecordIndex(i) <= Len(response[1].data)

\* the first ticker's quote failed, the second one has its data record
C8_Witness ==
  /\ pc = "done" /\ Accepted
  /\ Len(results) = 2
  /\ "error" \in DOMAIN results[1]
  /\ "price" \in DOMAIN results[2]
  /\ calls[1] = Call("quote", 1, FALSE)

(***************************************************************************)
(* Validation.                                                             *)
(***************************************************************************)
\* a mode value names weekly or monthly (in any case of letters)
NamesMode(v) == IsString(v) /\ Lower(v.chars) \in {WEEKLY, MONTHLY}

BadMode(r) ==
  \/ r.qmode # None /\ ~NamesMode(JStr(r.qmode[1]))
  \/ r.method = "POST" /\ r.bmode # None /\ ~NamesMode(r.bmode[1])

BadTickersField(r) == r.method = "POST" /\ (~r.has_tickers \/ ~r.is_list)

\* C9: a request whose mode is not weekly or monthly, or whose POST tickers
\* field is missing or not a list, is rejected with HTTP 400 (the
\* invalid-mode body when only the mode is wrong) before any provider call.
C9_RejectedWith400 ==
  (pc # "idle" /\ (BadMode(req[1]) \/ BadTickersField(req[1]))) =>
    /\ pc = "done"
    /\ calls = <<>>
    /\ response[1].status = 400
    /\ (~BadTickersField(req[1]) => response[1].error = MsgInvalidMode)

SuppliesEmptyList(r) ==
  \/ r.method = "GET" /\ r.tickers_param = <<>>
  \/ r.method = "POST" /\ r.has_tickers /\ r.is_list /\ r.body_tickers = <<>>

\* C10 as claimed: a request that supplies an empty tickers list, by GET or
\* by POST, is answered with HTTP 400.
C10_EmptyListRejected ==
  (pc # "idle" /\ SuppliesEmptyList(req[1])) => (pc = "done" /\ response[1].status = 400)

\* C10 as amended: a POST with an empty list is never answered with success
\* (HTTP 400, or 500 when its body mode is not a string); a GET with an empty
\* tickers parameter gets the five default tickers, and HTTP 200 with five
\* records when its mode is valid; no GET success has empty data.
C10_EmptyListAmended ==
  pc = "done" =>
    LET r == req[1]
        answer == response[1]
        qmode_ok == r.qmode = None \/ NamesMode(JStr(r.qmode[1]))
    IN /\ (r.method = "POST" /\ SuppliesEmptyList(r)) =>
            answer.status =
              (IF qmode_ok /\ r.bmode # None /\ ~IsString(r.bmode[1]) THEN 500 ELSE 400)
       /\ (r.method = "GET" /\ SuppliesEmptyList(r)) =>
            IF qmode_ok
            THEN /\ answer.status = 200
                 /\ answer.count = 5
                 /\ \A n \in 1..5 : answer.data[n].ticker = DefaultTickers[n]
            ELSE answer.status = 400
       /\ (r.method = "GET" /\ answer.status = 200) => answer.count >= 1

\* a GET without tickers, answered with the default tickers' records
C10_Witness ==
  /\ pc = "done"
  /\ req[1].method = "GET" /\ req[1].tickers_param = <<>>
  /\ response[1].status = 200
  /\ response[1].count = 5

(***************************************************************************)
(* The zero-valued quote.                                                  *)
(***************************************************************************)
\* the answer to the last quote call is a well-formed quote whose last price
\* and volume are 0 or absent
ZeroQuoteAnswer ==
  /\ quote_data # None
  /\ quote_data[1].kind = "ok"
  /\ (quote_data[1].has_last => quote_data[1].last = 0)
  /\ (quote_data[1].has_volume => quote_data[1].volume = 0)

\* get_ticker_data has returned for the ticker of the last provider call
TickerReturned == pc \in {"loop", "done"} /\ calls # <<>>

\* C11: a well-formed quote whose last price and volume are 0 or absent is a
\* present quote: get_stock_quote returns price 0 and volume 0, and
\* get_ticker_data returns the data record with price 0 and volume 0, not
\* the error record; the error record comes only from a transport error, a
\* non-2xx answer or a missing or malformed quote structure.
C11_ZeroQuoteIsPresent ==
  /\ ZeroQuoteAnswer =>
       /\ quote # None
       /\ quote[1].price = 0 /\ quote[1].volume = 0
       /\ TickerReturned =>
            LET r == results[RecordIndex(LastCall.pos)]
            IN /\ "error" \notin DOMAIN r
               /\ r.price = 0 /\ r.volume = 0
  /\ TickerReturned =>
       LET r == results[RecordIndex(LastCall.pos)]
       IN "error" \in DOMAIN r <=>
            quote_data[1].kind \in {"error", "nostruct", "malformed"}

\* the quote said last 0 and volume 0, and the request was answered with that
\* ticker's data record
C11_Witness ==
  /\ pc = "done"
  /\ quote_data = <<QuoteOk(TRUE, 0, TRUE, 0)>>
  /\ results[RecordIndex(LastCall.pos)].price = 0
  /\ results[RecordIndex(LastCall.pos)].implied_volatility = [text |-> "N/A"]

(***************************************************************************)
(* The order of the provider calls.                                        *)
(***************************************************************************)
\* call k is the step that may follow call k - 1: a quote call opens a later
\* position; an expirations call follows the successful quote call of its
\* position; a chain call follows the successful expirations call of its
\* position
InSequence(k) ==
  CASE calls[k].api = "quote" ->
         k = 1 \/ calls[k - 1].pos < calls[k].pos
    [] calls[k].api = "expirations" ->
         k > 1 /\ calls[k - 1] = Call("quote", calls[k].pos, TRUE)
    [] calls[k].api = "chain" ->
         k > 1 /\ calls[k - 1] = Call("expirations", calls[k].pos, TRUE)

\* C12: the provider calls of a request are strictly sequential and never
\* repeated: per string ticker at most one quote call, then at most one
\* expirations call, then at most one chain call, each made only after the
\* one before it succeeded; the calls of position i all come before those of
\* position i+1; a failed call is the last call of its position; and every
\* string ticker passed, a duplicate included, has a quote call of its own.
C12_CallsInSequence ==
  /\ \A k \in 1..Len(calls) :
       /\ calls[k].api \in {"quote", "expirations", "chain"}
       /\ calls[k].pos \in 1..Len(tickers)
       /\ IsString(tickers[calls[k].pos])
       /\ InSequence(k)
       /\ (~calls[k].ok /\ k < Len(calls)) => calls[k].pos < calls[k + 1].pos
  /\ \A a \in 1..Len(calls), b \in 1..Len(calls) :
       (a # b /\ calls[a].pos = calls[b].pos) => calls[a].api # calls[b].api
  /\ \A i \in 1..Len(tickers) :
       (IsString(tickers[i]) /\ (i < idx \/ pc = "done")) =>
         \E k \in 1..Len(calls) : calls[k].api = "quote" /\ calls[k].pos = i

\* the same symbol twice: the first quote call failed and was not repeated,
\* the second occurrence got its own quote, expirations and chain calls
C12_Witness ==
  /\ pc = "done"
  /\ Len(tickers) = 2 /\ tickers[1] = tickers[2] /\ IsString(tickers[1])
  /\ Len(calls) = 4
  /\ calls[1] = Call("quote", 1, FALSE)
  /\ calls[2] = Call("quote", 2, TRUE)
  /\ calls[3] = Call("expirations", 2, TRUE)
  /\ calls[4].api = "chain" /\ calls[4].pos = 2

====
